---- MODULE Spec2Model ----
(***************************************************************************)
(* Model of cross_asistent/static/js/sphere_visualizer.js: the module      *)
(* state of the sphere visualizer (time, ttsEnergy, ttsEnergySmooth,       *)
(* ttsActive, ttsSimInterval, animId, the canvas buffer size), the four    *)
(* window.sphere* control functions, the interval callback of the pulse    *)
(* generator, the resize handler, the draw() frame and the beforeunload    *)
(* handler.                                                                *)
(*                                                                         *)
(* Numbers: energies, Math.random() and Math.sin() results and `time` are  *)
(* fixed-point thousandths (ONE = 1.0).  Products with a decimal factor    *)
(* are rounded toward zero by Scale.  Sizes and the pixel ratio are        *)
(* integers.  null is modelled as 0 for the two handles (animId,           *)
(* ttsSimInterval); browser timer and frame ids are positive.              *)
(***************************************************************************)
EXTENDS Integers, FiniteSets, Sequences, TLC

VARIABLES
    canvas,            \* TRUE iff document.getElementById("sphereCanvas") found it
    apiExposed,        \* TRUE iff the window.sphere* functions were assigned
    animId,            \* last id returned by requestAnimationFrame, 0 = null
    pendingFrames,     \* frame requests scheduled by the browser and not yet run
    time,
    ttsEnergy,
    ttsEnergySmooth,
    ttsActive,
    ttsSimInterval,    \* id of the interval held by the module, 0 = null
    activeTimers,      \* interval timers the browser will still fire
    nextTimerId,       \* next id setInterval hands out
    clientWidth,       \* container.clientWidth  read by the last resize()
    clientHeight,      \* container.clientHeight read by the last resize()
    dpr,
    canvasWidth,
    canvasHeight,
    error,             \* TRUE iff some call of a control function threw
    unloaded,          \* TRUE iff the beforeunload handler has run
    pulseArmed,        \* TRUE iff sphereStartTTSPulse ran after the last stop/unload
    lastOp,            \* name of the handler that made the last step
    lastArg            \* what that handler was called with: the energy, the
                       \* flag (1/0), for sphereStartTTSPulse whether the
                       \* interval it held was still active (1/0), else 0

vars == <<canvas, apiExposed, animId, pendingFrames, time, ttsEnergy,
          ttsEnergySmooth, ttsActive, ttsSimInterval, activeTimers,
          nextTimerId, clientWidth, clientHeight, dpr, canvasWidth,
          canvasHeight, error, unloaded, pulseArmed, lastOp, lastArg>>

animVars == <<time, ttsEnergySmooth, animId, pendingFrames>>
ttsVars == <<ttsEnergy, ttsActive>>
timerVars == <<ttsSimInterval, activeTimers, nextTimerId, pulseArmed>>
sizeVars == <<clientWidth, clientHeight, dpr, canvasWidth, canvasHeight>>
pageVars == <<canvas, apiExposed, unloaded>>

----------------------------------------------------------------------------
(* Bounds *)

MaxFrames == 3      \* frame requests issued by requestAnimationFrame
MaxTimers == 2       \* interval ids issued by setInterval

(* Fixed-point unit and the literals of the source *)

ONE == 1000            \* 1.0
TIME_STEP == 6         \* 0.006
SMOOTHING == 120       \* 0.12
PULSE_BASE == 300      \* 0.3
PULSE_RANDOM == 500    \* 0.5
PULSE_SIN == 200       \* 0.2
MAX_SIZE == 420

(* Inputs *)

EnergyInputs == {0 - 500, 500, 1500}           \* below 0, inside, above 1
Randoms == {0, 999}                            \* Math.random() in [0,1)
Sines == {0 - ONE, ONE}                        \* Math.sin(..) in [-1,1]
ContainerSizes == {0, 1000}
PixelRatios == {1, 2}

----------------------------------------------------------------------------
(* Arithmetic helpers *)

Min(a, b) == IF a < b THEN a ELSE b
Max(a, b) == IF a > b THEN a ELSE b

\* x * (f/1000), rounded toward zero
Scale(x, f) == IF x * f >= 0 THEN (x * f) \div ONE ELSE 0 - ((0 - (x * f)) \div ONE)

\* variant: the upper bound of the clamp is missing
ClampEnergy_NoUpper(energy) == Max(0, energy)

\* Math.min(1, Math.max(0, energy))
ClampEnergy(energy) == Min(ONE, Max(0, energy))

\* variant: the random term is not halved
PulseEnergy_Unscaled(rnd, sin) == PULSE_BASE + rnd + Scale(sin, PULSE_SIN)

\* 0.3 + Math.random() * 0.5 + Math.sin(Date.now() / 200) * 0.2
PulseEnergy(rnd, sin) == PULSE_BASE + Scale(rnd, PULSE_RANDOM) + Scale(sin, PULSE_SIN)

\* variant: the target ignores ttsActive
TargetEnergy_IgnoreActive(active, energy) == energy

\* const targetEnergy = ttsActive ? ttsEnergy : 0;
TargetEnergy(active, energy) == IF active THEN energy ELSE 0

\* ttsEnergySmooth += (targetEnergy - ttsEnergySmooth) * 0.12;
Smooth(smooth, target) == smooth + Scale(target - smooth, SMOOTHING)

\* const size = Math.min(container.clientWidth, container.clientHeight, 420);
ResizeSize(w, h) == Min(Min(w, h), MAX_SIZE)

\* canvas.width = size * dpr;
BufferSize(w, h, d) == ResizeSize(w, h) * d

----------------------------------------------------------------------------
(* Initial state: the IIFE has run to its end. *)

Init ==
    /\ canvas \in BOOLEAN
    /\ apiExposed = canvas
    /\ clientWidth \in ContainerSizes
    /\ clientHeight \in ContainerSizes
    /\ dpr \in PixelRatios
    /\ canvasWidth = (IF canvas THEN BufferSize(clientWidth, clientHeight, dpr) ELSE 0)
    /\ canvasHeight = (IF canvas THEN BufferSize(clientWidth, clientHeight, dpr) ELSE 0)
    /\ time = (IF canvas THEN TIME_STEP ELSE 0)
    /\ ttsEnergy = 0
    /\ ttsEnergySmooth = (IF canvas THEN Smooth(0, TargetEnergy(FALSE, 0)) ELSE 0)
    /\ ttsActive = FALSE
    /\ animId = (IF canvas THEN 1 ELSE 0)
    /\ pendingFrames = (IF canvas THEN {1} ELSE {})
    /\ ttsSimInterval = 0
    /\ activeTimers = {}
    /\ nextTimerId = 1
    /\ error = FALSE
    /\ unloaded = FALSE
    /\ pulseArmed = FALSE
    /\ lastOp = "init"
    /\ lastArg = 0

----------------------------------------------------------------------------
(* A call of window.sphere* on a page where the IIFE returned at line 12:  *)
(* the property is undefined and the call throws a TypeError.              *)

CallMissing ==
    /\ ~apiExposed
    /\ error' = TRUE
    /\ lastOp' = "TypeError"
    /\ lastArg' = 0
    /\ UNCHANGED <<animVars, ttsVars, timerVars, sizeVars, pageVars>>

\* variant: the energy lingers when speech ends
EnergyAfterSetActive_Keep(active, energy) == energy

\* if (!active) ttsEnergy = 0;
EnergyAfterSetActive(active, energy) == IF ~active THEN 0 ELSE energy

sphereSetTTSActive(active) ==
    /\ apiExposed
    /\ ttsActive' = active
    /\ ttsEnergy' = EnergyAfterSetActive(active, ttsEnergy)
    /\ lastOp' = "sphereSetTTSActive"
    /\ lastArg' = (IF active THEN 1 ELSE 0)
    /\ UNCHANGED <<animVars, timerVars, sizeVars, pageVars, error>>

sphereSetTTSEnergy(energy) ==
    /\ apiExposed
    /\ ttsEnergy' = ClampEnergy(energy)
    /\ lastOp' = "sphereSetTTSEnergy"
    /\ lastArg' = energy
    /\ UNCHANGED <<animVars, ttsActive, timerVars, sizeVars, pageVars, error>>

\* clearInterval(id) as the browser performs it
ClearInterval(timers, id) == timers \ {id}

\* variant: the old interval is not cleared before the new one is set
StartPulseTimers_NoClear(timers, handle, id) == timers \cup {id}

\* if (ttsSimInterval) clearInterval(ttsSimInterval);
\* ttsSimInterval = setInterval(..., 80);
StartPulseTimers(timers, handle, id) ==
    (IF handle # 0 THEN ClearInterval(timers, handle) ELSE timers) \cup {id}

sphereStartTTSPulse ==
    /\ apiExposed
    /\ nextTimerId <= MaxTimers
    /\ ttsActive' = TRUE
    /\ activeTimers' = StartPulseTimers(activeTimers, ttsSimInterval, nextTimerId)
    /\ ttsSimInterval' = nextTimerId
    /\ nextTimerId' = nextTimerId + 1
    /\ pulseArmed' = TRUE
    /\ lastOp' = "sphereStartTTSPulse"
    /\ lastArg' = (IF ttsSimInterval \in activeTimers THEN 1 ELSE 0)
    /\ UNCHANGED <<animVars, ttsEnergy, sizeVars, pageVars, error>>

\* variant: the handle is dropped without clearing the interval
StopPulseTimers_NoClear(timers, handle) == timers

\* if (ttsSimInterval) { clearInterval(ttsSimInterval); ... }
StopPulseTimers(timers, handle) ==
    IF handle # 0 THEN ClearInterval(timers, handle) ELSE timers

sphereStopTTSPulse ==
    /\ apiExposed
    /\ ttsActive' = FALSE
    /\ ttsEnergy' = 0
    /\ activeTimers' = StopPulseTimers(activeTimers, ttsSimInterval)
    /\ ttsSimInterval' = 0
    /\ pulseArmed' = FALSE
    /\ lastOp' = "sphereStopTTSPulse"
    /\ lastArg' = 0
    /\ UNCHANGED <<animVars, nextTimerId, sizeVars, pageVars, error>>

\* the function passed to setInterval, fired for an interval that is still active
PulseTick(id, rnd, sin) ==
    /\ id \in activeTimers
    /\ ttsEnergy' = PulseEnergy(rnd, sin)
    /\ lastOp' = "pulseTick"
    /\ lastArg' = 0
    /\ UNCHANGED <<animVars, ttsActive, timerVars, sizeVars, pageVars, error>>

\* the window "resize" listener; the container and the device pixel ratio
\* have the values w, h, d when it runs
resize(w, h, d) ==
    /\ canvas
    /\ clientWidth' = w
    /\ clientHeight' = h
    /\ dpr' = d
    /\ canvasWidth' = BufferSize(w, h, d)
    /\ canvasHeight' = BufferSize(w, h, d)
    /\ lastOp' = "resize"
    /\ lastArg' = 0
    /\ UNCHANGED <<animVars, ttsVars, timerVars, pageVars, error>>

\* variant: draw() does not request the next frame
RequestNextFrame_None(pending, id, new) == pending \ {id}

\* the fired request id leaves the browser's list; draw() ends with
\* animId = requestAnimationFrame(draw);
RequestNextFrame(pending, id, new) == (pending \ {id}) \cup {new}

\* a frame request fires and runs draw()
draw(id) ==
    /\ id \in pendingFrames
    /\ animId < MaxFrames
    /\ time' = time + TIME_STEP
    /\ ttsEnergySmooth' = Smooth(ttsEnergySmooth, TargetEnergy(ttsActive, ttsEnergy))
    /\ animId' = animId + 1
    /\ pendingFrames' = RequestNextFrame(pendingFrames, id, animId + 1)
    /\ lastOp' = "draw"
    /\ lastArg' = 0
    /\ UNCHANGED <<ttsVars, timerVars, sizeVars, pageVars, error>>

\* variant: the pending frame request is not cancelled
CancelAnimationFrame_Noop(pending, id) == pending

\* cancelAnimationFrame(animId);
CancelAnimationFrame(pending, id) == pending \ {id}

\* if (ttsSimInterval) clearInterval(ttsSimInterval);
UnloadTimers(timers, handle) ==
    IF handle # 0 THEN ClearInterval(timers, handle) ELSE timers

\* the window "beforeunload" listener
beforeunload ==
    /\ canvas
    /\ pendingFrames' = CancelAnimationFrame(pendingFrames, animId)
    /\ activeTimers' = UnloadTimers(activeTimers, ttsSimInterval)
    /\ unloaded' = TRUE
    /\ pulseArmed' = FALSE
    /\ lastOp' = "beforeunload"
    /\ lastArg' = 0
    /\ UNCHANGED <<time, ttsEnergySmooth, animId, ttsVars, ttsSimInterval,
                   nextTimerId, sizeVars, canvas, apiExposed, error>>

Next ==
    \/ \E active \in BOOLEAN : sphereSetTTSActive(active)
    \/ \E energy \in EnergyInputs : sphereSetTTSEnergy(energy)
    \/ sphereStartTTSPulse
    \/ sphereStopTTSPulse
    \/ \E id \in activeTimers, rnd \in Randoms, sin \in Sines : PulseTick(id, rnd, sin)
    \/ \E w \in ContainerSizes, h \in ContainerSizes, d \in PixelRatios : resize(w, h, d)
    \/ \E id \in pendingFrames : draw(id)
    \/ beforeunload
    \/ CallMissing

Spec == Init /\ [][Next]_vars

----------------------------------------------------------------------------
(* Properties *)

\* C1: in every reachable state both ttsEnergy (energyRaw) and
\* ttsEnergySmooth (energySmoothed) lie in [0,1].
C1_EnergiesInUnitRange ==
    /\ 0 <= ttsEnergy /\ ttsEnergy <= ONE
    /\ 0 <= ttsEnergySmooth /\ ttsEnergySmooth <= ONE

\* a frame has smoothed toward the largest energy a pulse tick can store
C1_Witness ==
    /\ lastOp = "draw"
    /\ ttsActive
    /\ ttsEnergy = PULSE_BASE + 499 + PULSE_SIN
    /\ ttsEnergySmooth > 0
    /\ activeTimers # {}

\* C2: a step of sphereSetTTSEnergy(x) stores clamp(x, 0, 1) for x below 0,
\* inside [0,1] and above 1, raises no error, and leaves ttsActive,
\* ttsEnergySmooth, time and the pulse-generator handle and timer unchanged.
C2_SetEnergyClamps ==
    [][lastOp' = "sphereSetTTSEnergy" =>
          /\ ttsEnergy' = (IF lastArg' < 0 THEN 0
                           ELSE IF lastArg' > ONE THEN ONE ELSE lastArg')
          /\ error' = error /\ ~error'
          /\ UNCHANGED <<ttsActive, ttsEnergySmooth, time, ttsSimInterval,
                         activeTimers>>]_vars

\* an input above 1 was stored as 1 while a generator was running
C2_Witness ==
    /\ lastOp = "sphereSetTTSEnergy"
    /\ lastArg > ONE
    /\ ttsEnergy = ONE
    /\ ttsSimInterval # 0

\* C3: a step of sphereSetTTSActive(false) ends with ttsActive false and
\* ttsEnergy 0 whatever the energy was and whether or not an interval runs;
\* a step of sphereSetTTSActive(true) sets ttsActive and keeps ttsEnergy.
C3_SetActive ==
    [][lastOp' = "sphereSetTTSActive" =>
          /\ lastArg' = 0 => (~ttsActive' /\ ttsEnergy' = 0)
          /\ lastArg' = 1 => (ttsActive' /\ ttsEnergy' = ttsEnergy)
          /\ UNCHANGED <<ttsSimInterval, activeTimers>>]_vars

\* sphereSetTTSActive(false) has acted while a pulse generator is running
C3_Witness ==
    /\ lastOp = "sphereSetTTSActive"
    /\ lastArg = 0
    /\ activeTimers # {}
    /\ ~ttsActive
    /\ ttsEnergy = 0

\* C4: at most one interval timer is ever active, and right after
\* sphereStartTTSPulse exactly one is active, it is the one the handle
\* names, and ttsActive is true (also when one was running at the call).
C4_SingleGenerator ==
    /\ Cardinality(activeTimers) <= 1
    /\ lastOp = "sphereStartTTSPulse" =>
          /\ Cardinality(activeTimers) = 1
          /\ activeTimers = {ttsSimInterval}
          /\ ttsActive

\* sphereStartTTSPulse has acted while the previous interval was active
C4_Witness ==
    /\ lastOp = "sphereStartTTSPulse"
    /\ lastArg = 1
    /\ Cardinality(activeTimers) = 1

\* C5: a step of sphereStopTTSPulse ends with ttsActive false, ttsEnergy 0,
\* no active interval and a null handle; taken right after another
\* sphereStopTTSPulse it changes nothing; taken with a null handle it changes
\* nothing but ttsActive and ttsEnergy; and a pulse tick only ever runs when
\* sphereStartTTSPulse was called after the last stop.
C5_StopIdempotent ==
    /\ [][lastOp' = "sphereStopTTSPulse" =>
            /\ ~ttsActive' /\ ttsEnergy' = 0
            /\ activeTimers' = {} /\ ttsSimInterval' = 0
            /\ lastOp = "sphereStopTTSPulse" => UNCHANGED vars
            /\ ttsSimInterval = 0 =>
                  UNCHANGED <<animVars, ttsSimInterval, activeTimers,
                              nextTimerId, sizeVars, pageVars, error>>
            /\ activeTimers = {} =>
                  UNCHANGED <<animVars, activeTimers, nextTimerId, sizeVars,
                              pageVars, error>>]_vars
    /\ [][lastOp' = "pulseTick" => pulseArmed]_vars
    /\ [](lastOp = "sphereStopTTSPulse" => ~pulseArmed)

\* sphereStopTTSPulse has acted after a generator was started
C5_Witness ==
    /\ lastOp = "sphereStopTTSPulse"
    /\ nextTimerId > 1
    /\ activeTimers = {}
    /\ ttsSimInterval = 0

\* C6: right after the beforeunload handler no frame request is pending and
\* no interval is active; from then on no frame request is ever pending and
\* draw() never runs again, and a pulse tick runs only for an interval that
\* sphereStartTTSPulse created after the handler.
C6_TeardownCancelsAll ==
    /\ [](lastOp = "beforeunload" => (pendingFrames = {} /\ activeTimers = {}))
    /\ [](unloaded => pendingFrames = {})
    /\ [][unloaded => lastOp' # "draw"]_vars
    /\ [][(unloaded /\ lastOp' = "pulseTick") => pulseArmed]_vars
    /\ [](lastOp = "beforeunload" => ~pulseArmed)

\* the handler has acted with a generator started and frames drawn before
C6_Witness ==
    /\ lastOp = "beforeunload"
    /\ ttsSimInterval # 0
    /\ animId > 1
    /\ ttsActive

\* C7: with the canvas absent no frame request and no interval exists and no
\* call of a control function raises an error.
C7_SafeWithoutCanvas ==
    ~canvas => (pendingFrames = {} /\ activeTimers = {} /\ ~error)

\* C8: after resize() both buffer dimensions equal s * dpr, where s is
\* min(clientWidth, clientHeight) capped at 420 and raised to a positive
\* minimum size, so neither dimension is ever 0.
C8_ResizeClamped ==
    lastOp = "resize" =>
       /\ canvasWidth = canvasHeight
       /\ canvasWidth > 0
       /\ \E m \in 1..MAX_SIZE :
             canvasWidth = Max(m, Min(Min(clientWidth, clientHeight), MAX_SIZE)) * dpr

\* C9: a frame sets ttsEnergySmooth to prev + (target - prev) * 0.12 with
\* target = ttsEnergy if ttsActive held when the frame began and 0 otherwise;
\* the new value lies between prev and target, so it never crosses the
\* target: with ttsActive and ttsEnergy 1 it does not decrease and stays
\* <= 1, with ttsActive false it does not increase and stays >= 0.
C9_SmoothingStep ==
    [][lastOp' = "draw" =>
          LET target == IF ttsActive THEN ttsEnergy ELSE 0
              prev == ttsEnergySmooth
              delta == (target - prev) * SMOOTHING
              step == IF delta >= 0 THEN delta \div ONE ELSE 0 - ((0 - delta) \div ONE)
          IN /\ ttsEnergySmooth' = prev + step
             /\ prev <= target => (prev <= ttsEnergySmooth' /\ ttsEnergySmooth' <= target)
             /\ prev >= target => (target <= ttsEnergySmooth' /\ ttsEnergySmooth' <= prev)
             /\ (ttsActive /\ ttsEnergy = ONE) =>
                    (ttsEnergySmooth' >= prev /\ ttsEnergySmooth' <= ONE)
             /\ ~ttsActive => (ttsEnergySmooth' <= prev /\ ttsEnergySmooth' >= 0)]_vars

\* a frame rose toward a held target of 1 (0 -> 0.12), then
\* sphereSetTTSActive(false) and the next frame decayed toward 0 (-> 0.106)
C9_Witness ==
    /\ lastOp = "draw"
    /\ ~ttsActive
    /\ animId = 3
    /\ ttsEnergySmooth = 106

\* C10: with the canvas present, until the beforeunload handler runs exactly
\* one frame request is pending in every state, the one animId names; each
\* frame adds the same step to time, so time strictly increases; and no step
\* other than a frame changes time or ttsEnergySmooth.
C10_RenderLoop ==
    /\ []((canvas /\ ~unloaded) =>
             (Cardinality(pendingFrames) = 1 /\ pendingFrames = {animId}))
    /\ [][lastOp' = "draw" => (time' = time + TIME_STEP /\ time' > time)]_vars
    /\ [][lastOp' # "draw" => UNCHANGED <<time, ttsEnergySmooth>>]_vars
    /\ [](canvas => time = animId * TIME_STEP)

\* a pulse tick ran between frames and one request is still pending
C10_Witness ==
    /\ lastOp = "pulseTick"
    /\ animId = 3
    /\ ~unloaded
    /\ Cardinality(pendingFrames) = 1

====
